---- MODULE Spec2Model ----
(***************************************************************************)
(* A model of vader_ui.py: the two entry points analyze_text and           *)
(* analyze_url, the artifacts they return, and the calls they make to      *)
(* their collaborators (the VADER scoring oracle, requests, BeautifulSoup).*)
(*                                                                         *)
(* Text is a sequence of one-character strings.  Scores are fixed-point:   *)
(* an integer v stands for v / 100, so the thresholds -0.05 and 0.05 are   *)
(* -5 and 5 and the scale [-1, 1] is -100 .. 100.                          *)
(***************************************************************************)
EXTENDS Integers, Sequences, FiniteSets, TLC

VARIABLES
    text,        \* the argument the caller is preparing for analyze_text
    typed,       \* the lines the caller typed into text, as line shapes
    called,      \* the entry point that ran last: "none", "analyze_text", "analyze_url"
    ret,         \* what that call returned: <<gauge, dist, df>>
    raised,      \* TRUE iff that call let an exception escape to its caller
    oracle_log,  \* the arguments of the polarity_scores calls of that call, in order
    page,        \* the elements of the page the web server answers with
    fetches,     \* the number of requests.get calls of that call
    normalized,  \* the texts analyze_url handed to analyze_text in that call, in order
    failure,     \* the statement that raised in that call, "none" if none did
    memo         \* a call the caller remembers: its text and what it returned

vars == <<text, typed, called, ret, raised, oracle_log, page, fetches, normalized,
          failure, memo>>

----------------------------------------------------------------------------
(* Bounds of the model *)

\* the lines a caller types into one text
MaxLines == 6

\* the elements of one web page
MaxElements == 2

\* the paragraphs of a text, where the caller goes from one call to the next
MaxCallLines == 2

----------------------------------------------------------------------------
(* Constants of the program *)

\* a line is a paragraph when its stripped length exceeds this
ParagraphMinLen == 50

\* at most this many paragraphs are scored
MaxParagraphs == 5

\* the length of the excerpt shown in the Text column
ExcerptLen == 100

----------------------------------------------------------------------------
(* Python values and string methods *)

\* None, told from every artifact (each of them a record)
None == [none |-> TRUE]

\* str.strip() and str.splitlines() work on Python's whitespace
Whitespace == {" ", "\t", "\n", "\r", "\f"}

Min(a, b) == IF a <= b THEN a ELSE b

Rep(c, n) == [i \in 1..n |-> c]

\* s.strip()
strip(s) ==
    IF \A i \in 1..Len(s) : s[i] \in Whitespace
    THEN <<>>
    ELSE LET first == CHOOSE i \in 1..Len(s) :
                         /\ s[i] \notin Whitespace
                         /\ \A j \in 1..(i - 1) : s[j] \in Whitespace
             last  == CHOOSE i \in 1..Len(s) :
                         /\ s[i] \notin Whitespace
                         /\ \A j \in (i + 1)..Len(s) : s[j] \in Whitespace
         IN  SubSeq(s, first, last)

\* sep occurs in s at index i
At(s, sep, i) == i + Len(sep) - 1 <= Len(s) /\ SubSeq(s, i, i + Len(sep) - 1) = sep

\* s.split(sep): cut at the occurrences of sep, found from the left, not overlapping
RECURSIVE split(_, _)
split_at(s, sep, i) ==
    <<SubSeq(s, 1, i - 1)>> \o split(SubSeq(s, i + Len(sep), Len(s)), sep)

split(s, sep) ==
    IF \E i \in 1..Len(s) : At(s, sep, i)
    THEN split_at(s, sep, CHOOSE k \in 1..Len(s) :
                             /\ At(s, sep, k)
                             /\ \A j \in 1..(k - 1) : ~At(s, sep, j))
    ELSE <<s>>

\* the line boundaries of str.splitlines()
LineBreaks == {"\n", "\r", "\f"}

\* s.splitlines(): cut at every line boundary, "\r\n" counting as one; a final
\* boundary ends the last line and opens no empty one
RECURSIVE splitlines(_)
\* the width of the line boundary at index i of s
BreakWidth(s, i) == IF s[i] = "\r" /\ i < Len(s) /\ s[i + 1] = "\n" THEN 2 ELSE 1

splitlines_at(s, i) ==
    <<SubSeq(s, 1, i - 1)>> \o splitlines(SubSeq(s, i + BreakWidth(s, i), Len(s)))

splitlines(s) ==
    IF s = <<>> THEN <<>>
    ELSE IF \E i \in 1..Len(s) : s[i] \in LineBreaks
    THEN splitlines_at(s, CHOOSE k \in 1..Len(s) :
                             /\ s[k] \in LineBreaks
                             /\ \A j \in 1..(k - 1) : s[j] \notin LineBreaks)
    ELSE <<s>>

\* sep.join(xs)
RECURSIVE join(_, _)
join(sep, xs) ==
    IF xs = <<>> THEN <<>>
    ELSE IF Len(xs) = 1 THEN xs[1]
    ELSE xs[1] \o sep \o join(sep, Tail(xs))

\* ''.join(xs)
Concat(xs) == join(<<>>, xs)

\* [x.strip() for x in xs]
strip_all(xs) == [k \in 1..Len(xs) |-> strip(xs[k])]

\* s[:n]
Slice(s, n) == SubSeq(s, 1, Min(n, Len(s)))

----------------------------------------------------------------------------
(* The scoring oracle, SentimentIntensityAnalyzer.polarity_scores           *)
(* A deterministic, total function of its argument: "g" is a positive       *)
(* token, "b" a negative one, any other non-blank character is neutral.     *)

Count(s, c) == Cardinality({i \in 1..Len(s) : s[i] = c})

Clamp(v) == IF v > 100 THEN 100 ELSE IF v < -100 THEN -100 ELSE v

\* the scores of a text of n tokens, g of them positive and b negative
Scores(g, b, n) ==
    [ compound |-> IF g >= b THEN Clamp((g - b) \div 10)
                             ELSE Clamp(0 - ((b - g) \div 10)),
      pos |-> IF n = 0 THEN 0 ELSE (100 * g) \div n,
      neu |-> IF n = 0 THEN 100 ELSE 100 - ((100 * g) \div n) - ((100 * b) \div n),
      neg |-> IF n = 0 THEN 0 ELSE (100 * b) \div n ]

polarity_scores(s) ==
    Scores(Count(s, "g"), Count(s, "b"),
           Cardinality({i \in 1..Len(s) : s[i] \notin Whitespace}))

----------------------------------------------------------------------------
(* The artifacts *)

Labels == <<"Positive", "Neutral", "Negative">>

Columns == <<"Paragraph", "Text", "Compound Score">>

Ellipsis == <<".", ".", ".">>

\* go.Figure(go.Indicator(mode = "gauge+number", value = ..., gauge = {...}))
Indicator(value) ==
    [ mode  |-> "gauge+number",
      value |-> value,
      title |-> "Sentiment Score",
      axis  |-> <<-100, 100>>,
      bar   |-> "darkblue",
      steps |-> << [range |-> <<-100, -5>>, color |-> "red"],
                   [range |-> <<-5, 5>>,    color |-> "gray"],
                   [range |-> <<5, 100>>,   color |-> "green"] >> ]

\* pd.DataFrame({'Sentiment': [...], 'Score': [pos, neu, neg]})
sentiment_dist(scores) ==
    [ Sentiment |-> Labels,
      Score     |-> <<scores.pos, scores.neu, scores.neg>> ]

color_discrete_map == [Positive |-> "green", Neutral |-> "gray", Negative |-> "red"]

\* px.bar(frame, x='Sentiment', y='Score', color='Sentiment', ...): one trace
\* for each value of the colour column, holding the rows with that value.
\* The three labels are distinct, so every row gets a trace of its own.
px_bar(frame) ==
    [ title  |-> "Sentiment Distribution",
      traces |-> [k \in 1..Len(frame.Sentiment) |->
                    [ name  |-> frame.Sentiment[k],
                      x     |-> <<frame.Sentiment[k]>>,
                      y     |-> <<frame.Score[k]>>,
                      color |-> color_discrete_map[frame.Sentiment[k]] ]] ]

\* fig.update_traces(x=xs): sets x on every trace of the figure
update_traces(fig, xs) ==
    [fig EXCEPT !.traces = [k \in 1..Len(fig.traces) |-> [fig.traces[k] EXCEPT !.x = xs]]]

\* pd.DataFrame(list_of_dicts): the columns are the keys of the dicts, in the
\* order the dict literal of analyze_text gives them; no dict, no column
DataFrame(rows) == [columns |-> IF rows = <<>> THEN <<>> ELSE Columns, rows |-> rows]

\* pd.DataFrame(para_sentiments) whether or not the list is empty
EmptyDataFrame_bare(columns) == DataFrame(<<>>)

\* pd.DataFrame(columns=[...])
EmptyDataFrame(columns) == [columns |-> columns, rows |-> <<>>]

----------------------------------------------------------------------------
(* analyze_text *)

\* The statement of analyze_text's try block that raises, in program order.
\* "none": no statement raises.  "para_scores" is the oracle call of the loop,
\* which runs (and can raise) only when a paragraph was retained.
TextFaults == {"none", "polarity_scores", "Indicator", "bar", "para_scores", "DataFrame"}

Stage(fault) ==
    CASE fault = "polarity_scores" -> 1
      [] fault = "Indicator"       -> 2
      [] fault = "bar"             -> 3
      [] fault = "para_scores"     -> 4
      [] fault = "DataFrame"       -> 5
      [] OTHER                     -> 6

\* [p.strip() for p in text.split('\n') if len(p) > 50]: the length of the
\* line as typed, not of the stripped line
paragraphs_of_raw(t) ==
    strip_all(SelectSeq(split(t, <<"\n">>), LAMBDA p : Len(p) > ParagraphMinLen))

\* [p.strip() for p in text.split('\n') if len(p.strip()) > 50]
paragraphs_of(t) ==
    SelectSeq(strip_all(split(t, <<"\n">>)), LAMBDA p : Len(p) > ParagraphMinLen)

\* paragraphs[-5:]: the last five, not the first
first_paragraphs_last(paragraphs) ==
    SubSeq(paragraphs, Len(paragraphs) - Min(MaxParagraphs, Len(paragraphs)) + 1,
           Len(paragraphs))

\* [p[:100] for p in paragraphs[:5]]: the loop gets the excerpts, not the
\* paragraphs
first_paragraphs_excerpt(paragraphs) ==
    [i \in 1..Min(MaxParagraphs, Len(paragraphs)) |-> Slice(paragraphs[i], ExcerptLen)]

\* paragraphs[:5]
first_paragraphs(paragraphs) == Slice(paragraphs, MaxParagraphs)

\* the dict appended to para_sentiments for the i-th retained paragraph
para_row(i, para) ==
    ("Paragraph" :> ("Paragraph " \o ToString(i)))
    @@ ("Text" :> (Slice(para, ExcerptLen) \o Ellipsis))
    @@ ("Compound Score" :> polarity_scores(para).compound)

\* para_sentiments after the loop over the retained paragraphs
para_sentiments(retained) == [i \in 1..Len(retained) |-> para_row(i, retained[i])]

\* pd.DataFrame(para_sentiments) if para_sentiments else pd.DataFrame(columns=[...])
df_paragraphs(rows) == IF rows # <<>> THEN DataFrame(rows) ELSE EmptyDataFrame(Columns)

\* the stage at which the try block stops: that of the statement that raises,
\* 6 when none does (the loop's oracle call raises only if the loop runs)
raises_at(fault, retained) ==
    IF fault = "para_scores" /\ retained = <<>> THEN 6 ELSE Stage(fault)

\* The try block of analyze_text on text t, stopped at stage `at`, given the
\* document's scores and the retained paragraphs: the locals it has bound by
\* then (None: not bound), whether it raised, and the oracle calls it made.
try_block(t, at, scores, retained) ==
    [ exc           |-> at < 6,
      fig_gauge     |-> IF at > 2 THEN Indicator(scores.compound) ELSE None,
      fig_dist      |-> IF at > 3
                        THEN update_traces(px_bar(sentiment_dist(scores)), Labels)
                        ELSE None,
      df_paragraphs |-> IF at > 5 THEN df_paragraphs(para_sentiments(retained)) ELSE None,
      calls         |-> IF at < 4 THEN <<t>>
                        ELSE IF at = 4 THEN <<t, retained[1]>>
                        ELSE <<t>> \o retained ]

\* the try block of analyze_text, run until the statement `fault` raises
analyze_text_try(t, fault) ==
    try_block(t, raises_at(fault, first_paragraphs(paragraphs_of(t))),
              polarity_scores(t), first_paragraphs(paragraphs_of(t)))

\* the except clause returns what the try block had bound when it raised
except_partial(try) ==
    [ ret    |-> <<try.fig_gauge, try.fig_dist, try.df_paragraphs>>,
      raised |-> FALSE,
      calls  |-> try.calls ]

\* return fig_gauge, fig_dist, df_paragraphs
\* except Exception as e: return None, None, None
except_clause(try) ==
    [ ret    |-> IF try.exc THEN <<None, None, None>>
                 ELSE <<try.fig_gauge, try.fig_dist, try.df_paragraphs>>,
      raised |-> FALSE,
      calls  |-> try.calls ]

\* para_sentiments is a list of the module, not of the call: the rows `left`
\* of the table the last call returned are still in it
except_shared(try, left) ==
    [ ret    |-> IF try.exc THEN <<None, None, None>>
                 ELSE <<try.fig_gauge, try.fig_dist,
                        df_paragraphs(left \o try.df_paragraphs.rows)>>,
      raised |-> FALSE,
      calls  |-> try.calls ]

analyze_text_partial(t, fault) == except_partial(analyze_text_try(t, fault))

analyze_text_shared(t, fault) ==
    except_shared(analyze_text_try(t, fault),
                  IF ret[3] = None THEN <<>> ELSE ret[3].rows)

\* analyze_text(text): the try block, and `except Exception` around it
analyze_text(t, fault) == except_clause(analyze_text_try(t, fault))

----------------------------------------------------------------------------
(* analyze_url *)

Tags == {"p", "script", "style"}

\* the elements whose content html.parser does not parse as markup
CDataTags == {"script", "style"}

TagName ==
    [ p      |-> <<"p">>,
      script |-> <<"s", "c", "r", "i", "p", "t">>,
      style  |-> <<"s", "t", "y", "l", "e">> ]

\* The tokens of a page: a start tag, an end tag, or a run of characters.
StartTag(tag) == [kind |-> "start", tag |-> tag, chars |-> <<"<">> \o TagName[tag] \o <<">">>]

EndTag(tag) == [kind |-> "end", tag |-> tag, chars |-> <<"<", "/">> \o TagName[tag] \o <<">">>]

Data(chars) == [kind |-> "data", tag |-> "", chars |-> chars]

\* the open elements up to, and without, the innermost one named tag; all of
\* them when none is (an end tag that closes nothing is ignored)
PopTo(stack, tag) ==
    IF \E i \in 1..Len(stack) : stack[i] = tag
    THEN LET i == CHOOSE k \in 1..Len(stack) :
                     /\ stack[k] = tag
                     /\ \A j \in (k + 1)..Len(stack) : stack[j] # tag
         IN  SubSeq(stack, 1, i - 1)
    ELSE stack

\* BeautifulSoup(markup, 'html.parser'): the strings of the tree in document
\* order, each with the elements it lies in, outermost first.  Inside script
\* and style everything up to the element's own end tag is character data.
RECURSIVE html_parser(_, _, _)
html_parser(tokens, stack, strings) ==
    IF tokens = <<>> THEN strings
    ELSE LET tok  == Head(tokens)
             top  == IF stack = <<>> THEN "" ELSE stack[Len(stack)]
             data == Append(strings, [chars |-> tok.chars, parents |-> stack])
         IN  IF top \in CDataTags /\ ~(tok.kind = "end" /\ tok.tag = top)
             THEN html_parser(Tail(tokens), stack, data)
             ELSE IF tok.kind = "data"
             THEN html_parser(Tail(tokens), stack, data)
             ELSE IF tok.kind = "start"
             THEN html_parser(Tail(tokens), Append(stack, tok.tag), strings)
             ELSE html_parser(Tail(tokens), PopTo(stack, tok.tag), strings)

BeautifulSoup(markup) == html_parser(markup, <<>>, <<>>)

\* the elements stay in the tree
decompose_nothing(soup, names) == soup

\* for script in soup(names): script.decompose()
\* every element with one of the names leaves the tree, with all it contains
decompose(soup, names) ==
    SelectSeq(soup, LAMBDA str : \A i \in 1..Len(str.parents) : str.parents[i] \notin names)

\* soup.get_text(): the strings of the tree, concatenated
get_text(soup) == Concat([k \in 1..Len(soup) |-> soup[k].chars])

\* [phrase for line in lines for phrase in line.split("  ")]
phrases(lines) == Concat([k \in 1..Len(lines) |-> split(lines[k], <<" ", " ">>)])

\* text = '\n'.join(chunk for chunk in chunks if chunk): the fragments each
\* on a line of their own
normalize_newline(t) ==
    join(<<"\n">>, SelectSeq(strip_all(phrases(strip_all(splitlines(t)))),
                             LAMBDA chunk : chunk # <<>>))

\* lines  = (line.strip() for line in text.splitlines())
\* chunks = (phrase.strip() for line in lines for phrase in line.split("  "))
\* text   = ' '.join(chunk for chunk in chunks if chunk)
normalize(t) ==
    join(<<" ">>, SelectSeq(strip_all(phrases(strip_all(splitlines(t)))),
                            LAMBDA chunk : chunk # <<>>))

\* The statement of analyze_url's try block that raises: requests.get (no
\* connection, a timeout), raise_for_status (an HTTP error status), the parser.
UrlFaults == {"get", "raise_for_status", "BeautifulSoup"}

\* what analyze_url did when it got as far as `return analyze_text(text)`:
\* n fetches, the text t handed on, and what analyze_text returned
url_return(n, t, r) ==
    [ ret |-> r.ret, raised |-> r.raised, calls |-> r.calls,
      fetches |-> n, normalized |-> <<t>> ]

\* what analyze_url did when a statement before that raised
url_except ==
    [ ret |-> <<None, None, None>>, raised |-> FALSE, calls |-> <<>>,
      fetches |-> 1, normalized |-> <<>> ]

\* the text analyze_url makes of the markup
text_of(markup) ==
    normalize(get_text(decompose(BeautifulSoup(markup), {"script", "style"})))

\* return analyze_text(text)
url_analyze(n, t, fault) == url_return(n, t, analyze_text(t, fault))

\* a failed requests.get is tried once more, and the second try answers
analyze_url_retry(markup, fault) ==
    IF fault = "get" THEN url_analyze(2, text_of(markup), "none")
    ELSE IF fault \in UrlFaults THEN url_except
    ELSE url_analyze(1, text_of(markup), fault)

\* analyze_url(url), the server answering with markup (response.text, as
\* tokens): the try block, and `except Exception` around it.  A fault of
\* analyze_text strikes in the call the last line of the try block makes.
analyze_url(markup, fault) ==
    IF fault \in UrlFaults THEN url_except
    ELSE url_analyze(1, text_of(markup), fault)

----------------------------------------------------------------------------
(* The caller *)

\* The lines a caller types: a body of n characters, a star and n - 1 letters,
\* between a leading and a trailing run of whitespace (which, with a line
\* feed in it, leaves a blank line behind).
LineShapes ==
    { [lead |-> <<" ", "\t">>, letter |-> "n", n |-> 50,  trail |-> <<" ", "\r">>],
      [lead |-> <<" ">>,       letter |-> "g", n |-> 51,  trail |-> <<"\n", "\t">>],
      [lead |-> <<>>,          letter |-> "b", n |-> 101, trail |-> <<" ">>] }

Body(shape) == <<"*">> \o Rep(shape.letter, shape.n - 1)

Line(shape) == shape.lead \o Body(shape) \o shape.trail

\* The character data a page holds.
Contents ==
    { <<"G", "r", "e", "a", "t", " ", "d", "a", "y", "!">>,
      <<"i", "g", "n", "o", "r", "e", "d">>,
      <<"\n", " ">> \o Rep("g", 51) \o <<"\r", "\n">>,
      <<"a", " ", "\t", "b", " ", " ", " ", "c", "\n">> }

\* character data of ParagraphMinLen characters between whitespace: the
\* longest text that is no paragraph
AtThreshold == <<" ", "*">> \o Rep("n", ParagraphMinLen - 1) \o <<" ", " ">>

\* The elements a page is made of: character data alone, in an element with
\* its end tag, or in a script whose end tag is missing.
Elements ==
    { <<Data(c)>> : c \in Contents \cup {AtThreshold} }
    \cup { <<StartTag(tag), Data(c), EndTag(tag)>> : tag \in Tags, c \in Contents }
    \cup { <<StartTag("script"), Data(c)>> : c \in Contents }

Init ==
    /\ text = <<>>
    /\ typed = <<>>
    /\ called = "none"
    /\ ret = <<None, None, None>>
    /\ raised = FALSE
    /\ oracle_log = <<>>
    /\ page = <<>>
    /\ fetches = 0
    /\ normalized = <<>>
    /\ failure = "none"
    /\ memo = None

\* the caller adds a line to the text it is going to submit
TypeLine(shape) ==
    /\ called = "none"
    /\ Len(typed) < MaxLines
    /\ page = <<>>
    /\ text' = IF typed = <<>> THEN Line(shape) ELSE text \o <<"\n">> \o Line(shape)
    /\ typed' = Append(typed, shape)
    /\ UNCHANGED <<called, ret, raised, oracle_log, page, fetches, normalized,
                   failure, memo>>

\* the web server's page grows by an element
ServeElement(element) ==
    /\ called = "none"
    /\ Len(page) < MaxElements
    /\ typed = <<>>
    /\ page' = Append(page, element)
    /\ UNCHANGED <<text, typed, called, ret, raised, oracle_log, fetches, normalized,
                   failure, memo>>

\* the call returns r to the caller
Returns(r) ==
    /\ ret' = r.ret
    /\ raised' = r.raised
    /\ oracle_log' = r.calls

\* the call of analyze_url leaves the traces of r
UrlReturns(r) ==
    /\ fetches' = r.fetches
    /\ normalized' = r.normalized

\* the "Analyze Text" button: analyze_text(text)
AnalyzeText(f) ==
    /\ called = "none"
    /\ Returns(analyze_text(text, f))
    /\ called' = "analyze_text"
    /\ failure' = f
    /\ memo' = IF memo # None /\ memo.text # text /\ f = "none"
               THEN [memo EXCEPT !.others = TRUE]
               ELSE memo
    /\ UNCHANGED <<text, typed, page, fetches, normalized>>

\* the "Analyze URL" button: analyze_url(url)
AnalyzeUrl(f) ==
    /\ called = "none"
    /\ Returns(analyze_url(Concat(page), f))
    /\ UrlReturns(analyze_url(Concat(page), f))
    /\ called' = "analyze_url"
    /\ failure' = f
    /\ UNCHANGED <<text, typed, page, memo>>

\* the caller discards the result and starts on a new input
NewInput ==
    /\ called # "none"
    /\ text' = <<>>
    /\ typed' = <<>>
    /\ called' = "none"
    /\ ret' = <<None, None, None>>
    /\ raised' = FALSE
    /\ oracle_log' = <<>>
    /\ page' = <<>>
    /\ fetches' = 0
    /\ normalized' = <<>>
    /\ failure' = "none"
    /\ UNCHANGED memo

Next ==
    \/ \E shape \in LineShapes : TypeLine(shape)
    \/ \E f \in TextFaults : AnalyzeText(f)
    \/ \E element \in Elements : ServeElement(element)
    \/ \E f \in UrlFaults \cup TextFaults : AnalyzeUrl(f)
    \/ NewInput

Spec == Init /\ [][Next]_vars

----------------------------------------------------------------------------
(* Calls one after another: the caller goes from call to call, the outputs   *)
(* of the last call staying where they are until the next call replaces     *)
(* them, and remembers one of the calls to compare later ones with.         *)

\* a paragraph of a short text
TypeShortLine(shape) ==
    /\ Len(typed) < MaxCallLines
    /\ TypeLine(shape)

\* the caller notes the call that just returned (its text, what it returned,
\* and that no other text was analysed since) and turns to its next input
Remember ==
    /\ called = "analyze_text"
    /\ failure = "none"
    /\ memo' = [text |-> text, ret |-> ret, others |-> FALSE]
    /\ text' = <<>>
    /\ typed' = <<>>
    /\ called' = "none"
    /\ raised' = FALSE
    /\ oracle_log' = <<>>
    /\ UNCHANGED <<ret, page, fetches, normalized, failure>>

\* the caller turns to its next input
NextCall ==
    /\ called # "none"
    /\ text' = <<>>
    /\ typed' = <<>>
    /\ called' = "none"
    /\ raised' = FALSE
    /\ oracle_log' = <<>>
    /\ failure' = "none"
    /\ UNCHANGED <<ret, page, fetches, normalized, memo>>

NextCalls ==
    \/ \E shape \in {sh \in LineShapes : sh.n > ParagraphMinLen} : TypeShortLine(shape)
    \/ \E f \in TextFaults : AnalyzeText(f)
    \/ Remember
    \/ NextCall

SpecCalls == Init /\ [][NextCalls]_vars

----------------------------------------------------------------------------
(* What the caller knows of its input *)

\* the typed lines whose stripped length exceeds 50, in the order typed
Qualifying == SelectSeq(typed, LAMBDA sh : sh.n > 50)

\* the first n characters of s are those of t
SameStart(s, t, n) == Len(s) >= n /\ Len(t) >= n /\ SubSeq(s, 1, n) = SubSeq(t, 1, n)

\* the text the last call scored as the document
Document == IF called = "analyze_url" THEN normalized[1] ELSE text

\* the bars a figure draws: the points (x[i], y[i]) of its traces, in order
Bars(fig) ==
    Concat([k \in 1..Len(fig.traces) |->
              [i \in 1..Min(Len(fig.traces[k].x), Len(fig.traces[k].y)) |->
                 <<fig.traces[k].x[i], fig.traces[k].y[i]>>]])

\* the steps of a gauge whose range holds the value v
BandsOf(gauge, v) ==
    {k \in 1..Len(gauge.steps) :
        gauge.steps[k].range[1] <= v /\ v <= gauge.steps[k].range[2]}

----------------------------------------------------------------------------
(* The claims *)

\* C1: every call of analyze_text or analyze_url returns, and returns either
\* all three artifacts or None for all three, whatever statement raised.
C1_AllOrNothing ==
    /\ raised = FALSE
    /\ \/ \A i \in 1..3 : ret[i] = None
       \/ \A i \in 1..3 : ret[i] # None

\* the oracle raised on the first paragraph, gauge and chart already built
C1_Witness ==
    /\ called = "analyze_text"
    /\ failure = "para_scores"
    /\ Len(oracle_log) = 2
    /\ ret = <<None, None, None>>

\* C2: a line yields a paragraph iff its stripped length exceeds 50: the
\* table is empty iff no line of the text does, and every row shows a line
\* that does, never a short or a blank one.
C2_Threshold ==
    called = "analyze_text" /\ ret[3] # None =>
        /\ (ret[3].rows = <<>>) <=> (\A k \in 1..Len(typed) : typed[k].n <= 50)
        /\ \A r \in 1..Len(ret[3].rows) :
              \E k \in 1..Len(typed) :
                 /\ typed[k].n > 50
                 /\ SameStart(ret[3].rows[r]["Text"], Body(typed[k]), 51)

\* a line of exactly 50 characters, padded, between two longer ones
C2_Witness ==
    /\ called = "analyze_text"
    /\ ret[3] # None
    /\ Len(typed) = 3
    /\ typed[1].n = 51 /\ typed[2].n = 50 /\ typed[3].n = 101
    /\ Len(ret[3].rows) = 2

\* C3: with q qualifying lines the table has min(q, 5) rows: the first
\* min(q, 5) qualifying lines in their order, row k labelled "Paragraph k".
C3_FirstFive ==
    called = "analyze_text" /\ ret[3] # None =>
        /\ Len(ret[3].rows) = Min(Len(Qualifying), 5)
        /\ \A k \in 1..Len(ret[3].rows) :
              /\ ret[3].rows[k]["Paragraph"] = "Paragraph " \o ToString(k)
              /\ k <= Len(Qualifying)
              /\ SameStart(ret[3].rows[k]["Text"], Body(Qualifying[k]), 51)

\* six qualifying lines after a short one, the sixth unlike the first
C3_Witness ==
    /\ called = "analyze_text"
    /\ ret[3] # None
    /\ Len(Qualifying) = 6
    /\ Qualifying[1].n # Qualifying[6].n
    /\ Len(ret[3].rows) = 5

\* C4: the Text of a row is the first 100 characters of the paragraph and
\* the marker when the paragraph is longer than 100 characters, and the
\* paragraph as it is, without marker, when it is not.
C4_Excerpt ==
    called = "analyze_text" /\ ret[3] # None =>
        \A k \in 1..Min(Len(ret[3].rows), Len(Qualifying)) :
            ret[3].rows[k]["Text"] =
                IF Qualifying[k].n > 100
                THEN SubSeq(Body(Qualifying[k]), 1, 100) \o <<".", ".", ".">>
                ELSE Body(Qualifying[k])

\* C5: analyze_text on a text without qualifying line, the empty string
\* among them, returns gauge and chart and a table of no row under the
\* columns Paragraph, Text, Compound Score.
C5_EmptyTable ==
    called = "analyze_text" /\ failure = "none"
    /\ (\A k \in 1..Len(typed) : typed[k].n <= 50) =>
        /\ ret[1] # None
        /\ ret[2] # None
        /\ ret[3] # None
        /\ ret[3].rows = <<>>
        /\ ret[3].columns = <<"Paragraph", "Text", "Compound Score">>

\* the empty string analysed
C5_Witness ==
    /\ called = "analyze_text"
    /\ failure = "none"
    /\ text = <<>>
    /\ ret[3] # None

\* C6: when requests.get or raise_for_status raises, analyze_url returns
\* (None, None, None) after one fetch, without normalizing anything or
\* calling the oracle, and lets no exception out.
C6_FetchFailure ==
    called = "analyze_url" /\ failure \in {"get", "raise_for_status"} =>
        /\ ret = <<None, None, None>>
        /\ fetches = 1
        /\ normalized = <<>>
        /\ oracle_log = <<>>
        /\ raised = FALSE

\* the fetch of a page that is there fails
C6_Witness ==
    /\ called = "analyze_url"
    /\ failure = "get"
    /\ page # <<>>
    /\ ret = <<None, None, None>>

\* C7: the chart of a successful analysis draws three bars, Positive,
\* Neutral, Negative in this order, of the pos, neu and neg the oracle gives
\* the whole document, and the gauge shows that score's compound.
C7_Distribution ==
    called # "none" /\ ret[1] # None /\ ret[2] # None =>
        /\ Bars(ret[2]) = << <<"Positive", polarity_scores(Document).pos>>,
                             <<"Neutral",  polarity_scores(Document).neu>>,
                             <<"Negative", polarity_scores(Document).neg>> >>
        /\ ret[1].value = polarity_scores(Document).compound

\* C8: the value of the gauge lies in exactly one band, and that band is the
\* green one iff compound >= 0.05, the red one iff compound <= -0.05 and the
\* gray one iff -0.05 < compound < 0.05.
C8_Bands ==
    called # "none" /\ ret[1] # None =>
        LET v     == ret[1].value
            bands == BandsOf(ret[1], v)
        IN  /\ Cardinality(bands) = 1
            /\ \A k \in bands :
                  ret[1].steps[k].color =
                      IF v >= 5 THEN "green" ELSE IF v <= -5 THEN "red" ELSE "gray"

IsData(k) == Len(page[k]) = 1

\* the element k of the page is an element with its end tag, named tag
IsClosed(k, tag) == Len(page[k]) = 3 /\ page[k][1].tag = tag

\* the character data the element k of the page holds
DataOf(k) == IF IsData(k) THEN page[k][1].chars ELSE page[k][2].chars

\* the element k of the page follows a script left open: the last script
\* before it has no end tag
InOpenScript(k) ==
    \E j \in 1..(k - 1) :
        /\ Len(page[j]) = 2
        /\ \A m \in (j + 1)..(k - 1) : ~IsClosed(m, "script")

\* the element k of the page is text a reader sees
Visible(k) == ~InOpenScript(k) /\ (IsData(k) \/ IsClosed(k, "p"))

\* C10: the text analyze_url hands on is made of the visible text of the
\* page, in document order: nothing inside a script or style element gets
\* into it, neither its characters nor the markup it holds.
C10_ScriptsRemoved ==
    called = "analyze_url" /\ normalized # <<>> =>
        /\ normalized[1] =
              normalize(Concat([k \in 1..Len(page) |->
                                  IF Visible(k) THEN DataOf(k) ELSE <<>>]))
        /\ \A i \in 1..Len(normalized[1]) : normalized[1][i] \notin {"<", ">", "/"}
        /\ (\A k \in 1..Len(page) :
                Visible(k) => \A i \in 1..Len(DataOf(k)) : DataOf(k)[i] # "i")
              => \A i \in 1..Len(normalized[1]) : normalized[1][i] # "i"

\* <script>ignored</script><p>Great day!</p>
C10_Witness ==
    /\ called = "analyze_url"
    /\ page = << <<StartTag("script"), Data(<<"i", "g", "n", "o", "r", "e", "d">>),
                   EndTag("script")>>,
                 <<StartTag("p"),
                   Data(<<"G", "r", "e", "a", "t", " ", "d", "a", "y", "!">>),
                   EndTag("p")>> >>
    /\ normalized = << <<"G", "r", "e", "a", "t", " ", "d", "a", "y", "!">> >>

\* C11: the text analyze_url hands on has no whitespace at either end, no
\* line break, no empty fragment between its single spaces, and nowhere two
\* whitespace characters side by side, whatever tabs and runs of spaces the
\* lines of the page hold.
C11_Collapsed ==
    called = "analyze_url" /\ normalized # <<>> =>
        /\ normalized[1] = strip(normalized[1])
        /\ \A i \in 1..Len(normalized[1]) : normalized[1][i] \notin LineBreaks
        /\ \A k \in 1..Len(split(normalized[1], <<" ">>)) :
              normalized[1] # <<>> => split(normalized[1], <<" ">>)[k] # <<>>
        /\ \A i \in 1..(Len(normalized[1]) - 1) :
              ~(normalized[1][i] \in Whitespace /\ normalized[1][i + 1] \in Whitespace)

\* the lines of the document that qualify as paragraphs, trimmed, in order:
\* of a typed text the bodies of its qualifying lines, of a page's text,
\* which is one trimmed line, that line when it is long enough
QualifyingTexts ==
    IF called = "analyze_url"
    THEN IF Len(normalized[1]) > 50 THEN <<normalized[1]>> ELSE <<>>
    ELSE [i \in 1..Len(Qualifying) |-> Body(Qualifying[i])]

\* C12: a call that succeeds invokes the oracle 1 + min(q, 5) times, q the
\* number of qualifying lines: first on the whole text as given, then on each
\* retained paragraph in table order, on its full trimmed text; no other line
\* is scored, and the Compound Score of a row is the oracle's compound for
\* that row's paragraph alone.
C12_OracleCalls ==
    called # "none" /\ ret[3] # None =>
        /\ Len(oracle_log) = 1 + Min(Len(QualifyingTexts), 5)
        /\ Len(oracle_log) <= 6
        /\ oracle_log[1] = Document
        /\ Len(ret[3].rows) = Len(oracle_log) - 1
        /\ \A i \in 1..Min(Len(QualifyingTexts), 5) :
              /\ oracle_log[i + 1] = QualifyingTexts[i]
              /\ ret[3].rows[i]["Compound Score"] =
                    polarity_scores(QualifyingTexts[i]).compound

\* six qualifying lines, the first longer than its excerpt, the second
\* leaving a blank line behind it: six oracle calls, the second on all 101
\* characters of the first paragraph, none on the blank line or the sixth
C12_Witness ==
    /\ called = "analyze_text"
    /\ ret[3] # None
    /\ Len(Qualifying) = 6
    /\ Qualifying[1].n = 101
    /\ Qualifying[2].n = 51
    /\ Len(split(text, <<"\n">>)) > 6
    /\ Len(oracle_log) = 6
    /\ Len(oracle_log[2]) = 101

\* C13: the text analyze_url hands to analyze_text holds no line break, so
\* the paragraph table of a successful call has at most one row, and has one,
\* labelled "Paragraph 1" and made of the whole flattened text, exactly when
\* that text is longer than 50 characters, however many long paragraphs the
\* page holds.
C13_Flattened ==
    called = "analyze_url" /\ normalized # <<>> =>
        /\ \A i \in 1..Len(normalized[1]) : normalized[1][i] \notin LineBreaks
        /\ ret[3] # None =>
              /\ Len(ret[3].rows) <= 1
              /\ Len(ret[3].rows) = 1 <=> Len(normalized[1]) > 50
              /\ \A i \in 1..Len(ret[3].rows) :
                    /\ ret[3].rows[i]["Paragraph"] = "Paragraph 1"
                    /\ SameStart(ret[3].rows[i]["Text"], normalized[1],
                                 Min(100, Len(normalized[1])))
                    /\ oracle_log = <<normalized[1], normalized[1]>>

\* a page of two paragraphs of 51 characters each, on lines of their own:
\* one row for the 103 characters of the two together
C13_Witness ==
    /\ called = "analyze_url"
    /\ Len(page) = 2
    /\ \A k \in 1..2 :
          /\ IsClosed(k, "p")
          /\ Len(strip(DataOf(k))) = 51
          /\ \E i \in 1..Len(DataOf(k)) : DataOf(k)[i] = "\n"
    /\ ret[3] # None
    /\ Len(normalized[1]) = 103
    /\ Len(ret[3].rows) = 1

\* a page whose flattened text has exactly 50 characters: no row
C13_Boundary ==
    /\ called = "analyze_url"
    /\ ret[3] # None
    /\ Len(normalized[1]) = 50
    /\ ret[3].rows = <<>>

====
